---- MODULE Spec2Model ----
(***************************************************************************)
(* Object formats of the memory manager (src/src/format.c): FormatCreate,  *)
(* FormatDestroy, FormatCheck, FormatArena and FormatDefaultClass, modelled *)
(* statement by statement over an explicit store of format structures, the *)
(* arena's format ring (an intrusive doubly linked ring) and the arena's   *)
(* formatSerial counter.                                                   *)
(*                                                                         *)
(* One mutator at a time runs FormatCreate or FormatDestroy (the arena's   *)
(* lock serialises them); FormatArena is the one operation that runs       *)
(* without the lock and is therefore interleaved with every step.          *)
(* A failed AVER/AVERT/CHECK stops the program (assertFail is set and no   *)
(* further step is taken).                                                 *)
(***************************************************************************)
EXTENDS Integers, Sequences, FiniteSets, TLC

-----------------------------------------------------------------------------
(* Bounds of the model *)

\* Number of storage blocks ArenaAlloc can hand out for format structures.
MaxFormats == 2
\* Number of storage blocks there are: the blocks of a larger arena.
MaxBlocks == 3
\* Largest value of the Serial type (an unsigned integer; scaled down).
SerialMax == 3
\* Longest client object, in words, handed to a format's class method.
MaxObjectLen == 2
\* Number of roots the client can have registered with the arena at once.
MaxRoots == 3

-----------------------------------------------------------------------------
(* Values *)

NULL == 0
Addrs == 1..MaxBlocks
\* Address of arena->formatRing, the head node of the arena's format ring.
FormatRingHead == MaxBlocks + 1
Nodes == Addrs \cup {FormatRingHead}
RingNONE == NULL

SerialLimit == SerialMax + 1

FormatSig == "FormatSig"
SigInvalid == "SigInvalid"
\* Content of storage that was never written.
Junk == "junk"

TheArena == "arena"
FormatVarietyA == "FormatVarietyA"
FormatVarietyB == "FormatVarietyB"
VarietyOther == "FormatVarietyOther"
FnNULL == "NULL"
DefaultClassFn == "FormatDefaultClass"
ResOK == "ResOK"
ResFailures == {"ResMEMORY", "ResRESOURCE"}
NoFail == "none"

MethodNames == <<"scan", "skip", "move", "isMoved", "copy", "pad">>

VARIABLES
  formatSerial,  \* arena->formatSerial
  ring,          \* next/prev of arena->formatRing and of every format->arenaRing
  mem,           \* the other fields of the FormatStruct at every address
  allocated,     \* blocks ArenaAlloc has handed out and ArenaFree not taken back
  call,          \* the mutator's operation in progress: pc, arguments, locals
  formatReturn,  \* the caller's Format variable that *formatReturn denotes
  arenaRet,      \* FormatArena's argument and result, if the last step was that call
  classRet,      \* the last call of format->class: object and result
  assertFail,    \* the assertion that stopped the program, or NoFail
  handles,       \* ghost: every address FormatCreate has returned to the client
  retired,       \* ghost: handles on which FormatDestroy has completed
  live,          \* ghost: descriptors created successfully and not yet destroyed
  issued,        \* ghost: the serials of the successful FormatCreate calls, in order
  createdSince,  \* ghost: retired handles since whose destroy a FormatCreate succeeded
  describeRet,   \* the last FormatDescribe: argument, WriteF's result, text written
  checkRet,      \* the last FormatCheck calls made by the client: argument, results
  arenaGlobals   \* the arena's existence, its thread ring and its root ring

vars == <<formatSerial, ring, mem, allocated, call, formatReturn, arenaRet,
          classRet, assertFail, handles, retired, live, issued, createdSince,
          describeRet, checkRet, arenaGlobals>>

-----------------------------------------------------------------------------
(* The ring primitives (ring.h), on the next/prev store r *)

RingInit(r, n) == [r EXCEPT ![n] = [next |-> n, prev |-> n]]

RingAppend(r, head, new) ==
  LET last == r[head].prev
      r1 == [r EXCEPT ![new] = [next |-> head, prev |-> last]]
      r2 == [r1 EXCEPT ![last].next = new]
  IN [r2 EXCEPT ![head].prev = new]

RingRemove(r, old) ==
  LET n == r[old].next
      p == r[old].prev
      r1 == [r EXCEPT ![n].prev = p]
      r2 == [r1 EXCEPT ![p].next = n]
  IN [r2 EXCEPT ![old] = [next |-> old, prev |-> old]]

RingFinish(r, n) == [r EXCEPT ![n] = [next |-> RingNONE, prev |-> RingNONE]]

RingCheck(r, n) ==
  /\ n # NULL
  /\ r[n].next # NULL
  /\ r[r[n].next].prev = n
  /\ r[n].prev # NULL
  /\ r[r[n].prev].next = n

RingIsSingle(r, n) == r[n].next = n

\* The nodes met walking the ring from head->next until head comes round again.
RECURSIVE RingWalkFrom(_, _, _, _)
RingWalkFrom(r, head, n, fuel) ==
  IF n = head \/ n = RingNONE \/ fuel = 0 THEN <<>>
  ELSE <<n>> \o RingWalkFrom(r, head, r[n].next, fuel - 1)

RingWalk(r, head) == RingWalkFrom(r, head, r[head].next, MaxBlocks + 1)

RingMembers(r, head) ==
  LET w == RingWalk(r, head) IN {w[i] : i \in 1..Len(w)}

-----------------------------------------------------------------------------
(* Checks *)

AlignCheck(align) ==
  /\ align > 0
  /\ \E k \in 0..4 : align = 2^k

FUNCHECK(f) == f # FnNULL

\* The first check of FormatCheck that fails on the structure at format, or
\* NoFail when all pass.
FormatCheckFailure(format) ==
  IF format = NULL \/ mem[format].sig # FormatSig THEN "CHECKS(Format, format)"
  ELSE IF mem[format].arena # TheArena THEN "CHECKU(Arena, format->arena)"
  ELSE IF ~(mem[format].serial < formatSerial)
    THEN "format->serial < format->arena->formatSerial"
  ELSE IF mem[format].variety \notin {FormatVarietyA, FormatVarietyB}
    THEN "format->variety"
  ELSE IF ~RingCheck(ring, format) THEN "RingCheck(&format->arenaRing)"
  ELSE IF ~AlignCheck(mem[format].alignment) THEN "AlignCheck(format->alignment)"
  ELSE IF \E i \in 1..Len(MethodNames) : ~FUNCHECK(mem[format][MethodNames[i]])
    THEN LET i == CHOOSE j \in 1..Len(MethodNames) :
                    /\ ~FUNCHECK(mem[format][MethodNames[j]])
                    /\ \A k \in 1..(j-1) : FUNCHECK(mem[format][MethodNames[k]])
         IN "FUNCHECK(format->" \o MethodNames[i] \o ")"
  ELSE IF ~FUNCHECK(mem[format].class) THEN "FUNCHECK(format->class)"
  ELSE NoFail

FormatCheck(format) == FormatCheckFailure(format) = NoFail

-----------------------------------------------------------------------------
(* Arguments of FormatCreate *)

\* Every argument acceptable on its own: a valid alignment, a recognised
\* variety, the six methods present, class present or null.
GoodAligns == {8}
WellFormedArgs ==
  [ formatReturn : {"&format"},
    arena : {TheArena},
    alignment : GoodAligns,
    variety : {FormatVarietyA, FormatVarietyB},
    scan : {"scan"},
    skip : {"skip"},
    move : {"move"},
    isMoved : {"isMoved"},
    copy : {"copy"},
    pad : {"pad"},
    class : {FnNULL, "class"} ]

\* One malformed argument in an otherwise well-formed call: a null
\* formatReturn, an alignment that is zero or no power of two, an unrecognised
\* variety (with and without a class), or one of the six methods null.
BaseArgs ==
  [ formatReturn |-> "&format", arena |-> TheArena, alignment |-> 8,
    variety |-> FormatVarietyA, scan |-> "scan", skip |-> "skip",
    move |-> "move", isMoved |-> "isMoved", copy |-> "copy", pad |-> "pad",
    class |-> "class" ]

BadAligns == {0, 3}

MalformedArgs ==
  {[BaseArgs EXCEPT !.formatReturn = "NULL"]}
    \cup {[BaseArgs EXCEPT !.alignment = al] : al \in BadAligns}
    \cup {[BaseArgs EXCEPT !.variety = VarietyOther, !.class = c] :
            c \in {FnNULL, "class"}}
    \cup {[BaseArgs EXCEPT ![MethodNames[i]] = FnNULL] : i \in 1..Len(MethodNames)}

CreateArgs == WellFormedArgs \cup MalformedArgs

NoArgs ==
  [ formatReturn |-> "NULL", arena |-> TheArena, alignment |-> 0,
    variety |-> VarietyOther, scan |-> FnNULL, skip |-> FnNULL, move |-> FnNULL,
    isMoved |-> FnNULL, copy |-> FnNULL, pad |-> FnNULL, class |-> FnNULL ]

JunkStruct ==
  [ sig |-> Junk, arena |-> Junk, alignment |-> 0, variety |-> Junk,
    scan |-> Junk, skip |-> Junk, move |-> Junk, isMoved |-> Junk,
    copy |-> Junk, pad |-> Junk, class |-> Junk, serial |-> 0 ]

NoArenaRet == [format |-> NULL, arena |-> Junk]

\* Client objects: the words stored from the object's address on.  The null
\* pointer is the object with no words.
ObjectWords == {5, 7}
NullObject == <<>>
Objects ==
  {NullObject} \cup UNION {[1..n -> ObjectWords] : n \in 1..MaxObjectLen}
NoClassRet == [format |-> NULL, method |-> FnNULL, object |-> NullObject, result |-> 0]

IdleCall ==
  [ pc |-> "idle", args |-> NoArgs, format |-> NULL, res |-> ResOK,
    preSerial |-> 0, stale |-> FALSE, reused |-> FALSE ]

\* The states in which an operation has returned and its caller has not yet
\* gone on.
ReturnPoints ==
  {"create_ret", "destroy_ret", "class_ret", "describe_ret", "check_ret",
   "check_again_ret"}

\* FormatDescribe's stream: WriteF's result and the text it wrote, one
\* <<directive, text of the argument>> pair for each directive.
WriteFailures == {"ResIO"}
NoDescribeRet == [format |-> NULL, writeRes |-> ResOK, out |-> <<>>]

NotCalled == "not called"
NoCheckRet == [format |-> NULL, first |-> NotCalled, second |-> NotCalled]

\* The arena's globals that outlive the formats: whether the arena exists,
\* the registered threads, the ring of roots, each root's rank, and the last
\* of the arena's operations the client called.
Roots == 1..MaxRoots
RootRingHead == MaxRoots + 1
RootNodes == Roots \cup {RootRingHead}
Threads == {"thread"}
Ranks == {"ambig", "exact"}
NoRank == "none"

EmptyRootRing ==
  [n \in RootNodes |->
     IF n = RootRingHead THEN [next |-> n, prev |-> n]
     ELSE [next |-> RingNONE, prev |-> RingNONE]]

LiveArenaGlobals ==
  [ state |-> "live", threadRing |-> {}, rootRing |-> EmptyRootRing,
    rank |-> [r \in Roots |-> NoRank], op |-> "ArenaCreate" ]

-----------------------------------------------------------------------------
(* Initial state: an arena just created, with no formats *)

Init ==
  /\ formatSerial = 0
  /\ ring = [n \in Nodes |->
               IF n = FormatRingHead THEN [next |-> n, prev |-> n]
               ELSE [next |-> RingNONE, prev |-> RingNONE]]
  /\ mem = [a \in Addrs |-> JunkStruct]
  /\ allocated = {}
  /\ call = IdleCall
  /\ formatReturn = NULL
  /\ arenaRet = NoArenaRet
  /\ classRet = NoClassRet
  /\ assertFail = NoFail
  /\ handles = {}
  /\ retired = {}
  /\ live = {}
  /\ issued = <<>>
  /\ createdSince = {}
  /\ describeRet = NoDescribeRet
  /\ checkRet = NoCheckRet
  /\ arenaGlobals = LiveArenaGlobals

Running == assertFail = NoFail

-----------------------------------------------------------------------------
(* FormatCreate, format.c lines 44-93 *)

\* Entry and line 59: AVER(formatReturn != NULL).
CreateCall ==
  /\ Running /\ call.pc = "idle"
  /\ \E a \in CreateArgs :
       IF a.formatReturn = "NULL"
       THEN /\ assertFail' = "formatReturn != NULL"
            /\ call' = [call EXCEPT !.pc = "create_aver", !.args = a,
                                    !.preSerial = formatSerial]
       ELSE /\ call' = [call EXCEPT !.pc = "create_alloc", !.args = a,
                                    !.preSerial = formatSerial]
            /\ UNCHANGED assertFail
  /\ arenaRet' = NoArenaRet
  /\ UNCHANGED <<formatSerial, ring, mem, allocated, formatReturn, classRet, handles, retired, live, issued, createdSince, describeRet, checkRet, arenaGlobals>>

\* Faulty variant of CreateAllocFail: the failure path stores into *formatReturn.
CreateAllocFailClobbersReturn ==
  /\ Running /\ call.pc = "create_alloc"
  /\ \E r \in ResFailures : call' = [call EXCEPT !.pc = "create_ret", !.res = r]
  /\ formatReturn' = NULL
  /\ arenaRet' = NoArenaRet
  /\ UNCHANGED <<formatSerial, ring, mem, allocated, classRet, assertFail, handles, retired, live, issued, createdSince, describeRet, checkRet, arenaGlobals>>

\* Lines 61-63, ArenaAlloc fails: return res.
CreateAllocFail ==
  /\ Running /\ call.pc = "create_alloc"
  /\ \E r \in ResFailures : call' = [call EXCEPT !.pc = "create_ret", !.res = r]
  /\ arenaRet' = NoArenaRet
  /\ UNCHANGED <<formatSerial, ring, mem, allocated, formatReturn, classRet, assertFail, handles, retired, live, issued, createdSince, describeRet, checkRet, arenaGlobals>>

\* The blocks ArenaAlloc may return: any block freed earlier, or a block never
\* handed out before (these are interchangeable: the lowest stands for all).
FreshBlocks(pool) == {a \in pool \ allocated : mem[a] = JunkStruct}

AllocChoices(pool) ==
  ((pool \ allocated) \ FreshBlocks(pool))
    \cup {a \in FreshBlocks(pool) : \A b \in FreshBlocks(pool) : a <= b}

\* Lines 61-64, ArenaAlloc succeeds; the block's content is whatever was left
\* there.
CreateAllocFrom(pool) ==
  /\ Running /\ call.pc = "create_alloc"
  /\ \E p \in AllocChoices(pool) :
       /\ allocated' = allocated \cup {p}
       /\ call' = [call EXCEPT !.pc = "create_arena", !.format = p, !.res = ResOK]
  /\ arenaRet' = NoArenaRet
  /\ UNCHANGED <<formatSerial, ring, mem, formatReturn, classRet, assertFail, handles, retired, live, issued, createdSince, describeRet, checkRet, arenaGlobals>>

\* ArenaAlloc in an arena of MaxFormats blocks, and in the larger arena.
CreateAllocOK == CreateAllocFrom(1..MaxFormats)

CreateAllocWide == CreateAllocFrom(Addrs)

\* Line 66: format->arena = arena.
CreateArena ==
  /\ Running /\ call.pc = "create_arena"
  /\ mem' = [mem EXCEPT ![call.format].arena = call.args.arena]
  /\ call' = [call EXCEPT !.pc = "create_ring"]
  /\ arenaRet' = NoArenaRet
  /\ UNCHANGED <<formatSerial, ring, allocated, formatReturn, classRet, assertFail, handles, retired, live, issued, createdSince, describeRet, checkRet, arenaGlobals>>

\* Line 67: RingInit(&format->arenaRing).
CreateRingInit ==
  /\ Running /\ call.pc = "create_ring"
  /\ ring' = RingInit(ring, call.format)
  /\ call' = [call EXCEPT !.pc = "create_fields"]
  /\ arenaRet' = NoArenaRet
  /\ UNCHANGED <<formatSerial, mem, allocated, formatReturn, classRet, assertFail, handles, retired, live, issued, createdSince, describeRet, checkRet, arenaGlobals>>

\* Lines 68-75: alignment, variety and the six methods scan .. pad.
CreateFields ==
  /\ Running /\ call.pc = "create_fields"
  /\ mem' = [mem EXCEPT ![call.format] =
               [@ EXCEPT !.alignment = call.args.alignment,
                         !.variety = call.args.variety,
                         !.scan = call.args.scan,
                         !.skip = call.args.skip,
                         !.move = call.args.move,
                         !.isMoved = call.args.isMoved,
                         !.copy = call.args.copy,
                         !.pad = call.args.pad]]
  /\ call' = [call EXCEPT !.pc = "create_class"]
  /\ arenaRet' = NoArenaRet
  /\ UNCHANGED <<formatSerial, ring, allocated, formatReturn, classRet, assertFail, handles, retired, live, issued, createdSince, describeRet, checkRet, arenaGlobals>>

\* Lines 76-81: the class method that is installed for the argument class and
\* variety, or the assertion that fails.
\* Faulty variant of ClassAverFails: line 77 left out.
ClassAverNever(class, variety) == FALSE

ClassAverFails(class, variety) == class = FnNULL /\ variety # FormatVarietyA

InstalledClass(class) == IF class = FnNULL THEN DefaultClassFn ELSE class

CreateClass ==
  /\ Running /\ call.pc = "create_class"
  /\ IF ClassAverFails(call.args.class, call.args.variety)
     THEN /\ assertFail' = "variety == FormatVarietyA"
          /\ call' = [call EXCEPT !.pc = "create_aver"]
          /\ UNCHANGED mem
     ELSE /\ mem' = [mem EXCEPT ![call.format].class = InstalledClass(call.args.class)]
          /\ call' = [call EXCEPT !.pc = "create_sig"]
          /\ UNCHANGED assertFail
  /\ arenaRet' = NoArenaRet
  /\ UNCHANGED <<formatSerial, ring, allocated, formatReturn, classRet, handles, retired, live, issued, createdSince, describeRet, checkRet, arenaGlobals>>

\* Line 83: format->sig = FormatSig.
CreateSig ==
  /\ Running /\ call.pc = "create_sig"
  /\ mem' = [mem EXCEPT ![call.format].sig = FormatSig]
  /\ call' = [call EXCEPT !.pc = "create_serial"]
  /\ arenaRet' = NoArenaRet
  /\ UNCHANGED <<formatSerial, ring, allocated, formatReturn, classRet, assertFail, handles, retired, live, issued, createdSince, describeRet, checkRet, arenaGlobals>>

\* Line 84: format->serial = arena->formatSerial.
SerialFor(counter) == counter

CreateSerial ==
  /\ Running /\ call.pc = "create_serial"
  /\ mem' = [mem EXCEPT ![call.format].serial = SerialFor(formatSerial)]
  /\ call' = [call EXCEPT !.pc = "create_incr"]
  /\ arenaRet' = NoArenaRet
  /\ UNCHANGED <<formatSerial, ring, allocated, formatReturn, classRet, assertFail, handles, retired, live, issued, createdSince, describeRet, checkRet, arenaGlobals>>

\* Line 85: ++arena->formatSerial, in the unsigned Serial type.
\* Faulty variant of SerialIncrement: the counter advances by two.
SerialIncrementTwice(counter) == (counter + 2) % SerialLimit

SerialIncrement(counter) == (counter + 1) % SerialLimit

CreateIncrement ==
  /\ Running /\ call.pc = "create_incr"
  /\ formatSerial' = SerialIncrement(formatSerial)
  /\ call' = [call EXCEPT !.pc = "create_avert"]
  /\ arenaRet' = NoArenaRet
  /\ UNCHANGED <<ring, mem, allocated, formatReturn, classRet, assertFail, handles, retired, live, issued, createdSince, describeRet, checkRet, arenaGlobals>>
\* Faulty variant of CreateAvert: the new descriptor is not validated.
CreateAvertMissing ==
  /\ Running /\ call.pc = "create_avert"
  /\ call' = [call EXCEPT !.pc = "create_append"]
  /\ arenaRet' = NoArenaRet
  /\ UNCHANGED <<formatSerial, ring, mem, allocated, formatReturn, classRet,
                 assertFail, handles, retired, live, issued, createdSince,
                 describeRet, checkRet, arenaGlobals>>


\* Line 87: AVERT(Format, format).
CreateAvert ==
  /\ Running /\ call.pc = "create_avert"
  /\ IF FormatCheck(call.format)
     THEN /\ call' = [call EXCEPT !.pc = "create_append"]
          /\ UNCHANGED assertFail
     ELSE /\ call' = [call EXCEPT !.pc = "create_aver"]
          /\ assertFail' = FormatCheckFailure(call.format)
  /\ arenaRet' = NoArenaRet
  /\ UNCHANGED <<formatSerial, ring, mem, allocated, formatReturn, classRet, handles, retired, live, issued, createdSince, describeRet, checkRet, arenaGlobals>>

\* Faulty variant of CreateAppend: the descriptor is not linked into the ring.
CreateAppendMissing ==
  /\ Running /\ call.pc = "create_append"
  /\ call' = [call EXCEPT !.pc = "create_return"]
  /\ arenaRet' = NoArenaRet
  /\ UNCHANGED <<formatSerial, ring, mem, allocated, formatReturn, classRet, assertFail, handles, retired, live, issued, createdSince, describeRet, checkRet, arenaGlobals>>

\* Faulty variant of CreateAppend: the new node goes in at the front.
CreateAppendAtFront ==
  /\ Running /\ call.pc = "create_append"
  /\ ring' = RingAppend(ring, ring[FormatRingHead].next, call.format)
  /\ call' = [call EXCEPT !.pc = "create_return"]
  /\ arenaRet' = NoArenaRet
  /\ UNCHANGED <<formatSerial, mem, allocated, formatReturn, classRet,
                 assertFail, handles, retired, live, issued, createdSince,
                 describeRet, checkRet, arenaGlobals>>

\* Line 89: RingAppend(&arena->formatRing, &format->arenaRing).
CreateAppend ==
  /\ Running /\ call.pc = "create_append"
  /\ ring' = RingAppend(ring, FormatRingHead, call.format)
  /\ call' = [call EXCEPT !.pc = "create_return"]
  /\ arenaRet' = NoArenaRet
  /\ UNCHANGED <<formatSerial, mem, allocated, formatReturn, classRet, assertFail, handles, retired, live, issued, createdSince, describeRet, checkRet, arenaGlobals>>

\* Lines 91-92: *formatReturn = format; return ResOK.
CreateReturn ==
  /\ Running /\ call.pc = "create_return"
  /\ formatReturn' = call.format
  /\ call' = [call EXCEPT !.pc = "create_ret", !.res = ResOK]
  /\ handles' = handles \cup {call.format}
  /\ live' = live \cup {call.format}
  /\ issued' = Append(issued, mem[call.format].serial)
  /\ createdSince' = retired
  /\ arenaRet' = NoArenaRet
  /\ UNCHANGED <<formatSerial, ring, mem, allocated, classRet, assertFail, retired, describeRet, checkRet, arenaGlobals>>

\* The caller takes the result; the mutator is free for the next operation.
CallerResumes ==
  /\ Running /\ call.pc \in ReturnPoints
  /\ call' = IdleCall
  /\ classRet' = NoClassRet
  /\ describeRet' = NoDescribeRet
  /\ checkRet' = NoCheckRet
  /\ arenaRet' = NoArenaRet
  /\ UNCHANGED <<formatSerial, ring, mem, allocated, formatReturn, assertFail, handles, retired, live, issued, createdSince, arenaGlobals>>

-----------------------------------------------------------------------------
(* FormatDefaultClass, format.c lines 37-42, and a call of format->class *)

\* Line 41: ((Addr *)object)[0].
\* Faulty variant of FormatDefaultClass: reads the last word, not the first.
FormatDefaultClassLastWord(object) == object[Len(object)]

FormatDefaultClass(object) == object[1]

\* The collector calls the class method of a format it has validated.  The
\* default method asserts object != NULL (line 39); a client's own method is
\* not part of format.c and its result is left open (0).
ClassCall ==
  /\ Running /\ call.pc = "idle"
  /\ \E f \in live, obj \in Objects :
       /\ FormatCheck(f)
       /\ IF mem[f].class = DefaultClassFn
          THEN IF obj = NullObject
               THEN /\ assertFail' = "object != NULL"
                    /\ call' = [call EXCEPT !.pc = "class_aver", !.format = f]
                    /\ classRet' = [format |-> f, method |-> DefaultClassFn,
                                    object |-> obj, result |-> 0]
               ELSE /\ call' = [call EXCEPT !.pc = "class_ret", !.format = f]
                    /\ classRet' = [format |-> f, method |-> DefaultClassFn,
                                    object |-> obj,
                                    result |-> FormatDefaultClass(obj)]
                    /\ UNCHANGED assertFail
          ELSE /\ call' = [call EXCEPT !.pc = "class_ret", !.format = f]
               /\ classRet' = [format |-> f, method |-> mem[f].class,
                               object |-> obj, result |-> 0]
               /\ UNCHANGED assertFail
  /\ arenaRet' = NoArenaRet
  /\ UNCHANGED <<formatSerial, ring, mem, allocated, formatReturn, handles, retired, live, issued, createdSince, describeRet, checkRet, arenaGlobals>>

-----------------------------------------------------------------------------
(* FormatDestroy, format.c lines 96-107 *)

\* Faulty variant of DestroyCall: line 98 left out.
DestroyCallUnchecked ==
  /\ Running /\ call.pc = "idle"
  /\ \E f \in handles, st \in BOOLEAN :
       /\ st => f \in retired
       /\ ~st => f \in live
       /\ call' = [call EXCEPT !.pc = "destroy_remove", !.format = f,
                               !.stale = st, !.reused = f \in allocated]
  /\ arenaRet' = NoArenaRet
  /\ UNCHANGED <<formatSerial, ring, mem, allocated, formatReturn, classRet, assertFail, handles, retired, live, issued, createdSince, describeRet, checkRet, arenaGlobals>>

\* Entry and line 98: AVERT(Format, format).  The client passes any handle it
\* was ever given; stale marks a call on a handle it has destroyed before.
DestroyCall ==
  /\ Running /\ call.pc = "idle"
  /\ \E f \in handles, st \in BOOLEAN :
       /\ st => f \in retired
       /\ ~st => f \in live
       /\ IF FormatCheck(f)
          THEN /\ call' = [call EXCEPT !.pc = "destroy_remove", !.format = f,
                                       !.stale = st, !.reused = f \in allocated]
               /\ UNCHANGED assertFail
          ELSE /\ call' = [call EXCEPT !.pc = "destroy_aver", !.format = f,
                                       !.stale = st, !.reused = f \in allocated]
               /\ assertFail' = FormatCheckFailure(f)
  /\ arenaRet' = NoArenaRet
  /\ UNCHANGED <<formatSerial, ring, mem, allocated, formatReturn, classRet, handles, retired, live, issued, createdSince, describeRet, checkRet, arenaGlobals>>
\* Faulty variant of DestroyRingRemove: the node is finished without being
\* unlinked from its neighbours.
DestroyRingRemoveNotUnlinked ==
  /\ Running /\ call.pc = "destroy_remove"
  /\ ring' = RingFinish(ring, call.format)
  /\ call' = [call EXCEPT !.pc = "destroy_sig"]
  /\ arenaRet' = NoArenaRet
  /\ UNCHANGED <<formatSerial, mem, allocated, formatReturn, classRet,
                 assertFail, handles, retired, live, issued, createdSince,
                 describeRet, checkRet, arenaGlobals>>


\* Line 100: RingRemove(&format->arenaRing).
DestroyRingRemove ==
  /\ Running /\ call.pc = "destroy_remove"
  /\ ring' = RingRemove(ring, call.format)
  /\ call' = [call EXCEPT !.pc = "destroy_sig"]
  /\ arenaRet' = NoArenaRet
  /\ UNCHANGED <<formatSerial, mem, allocated, formatReturn, classRet, assertFail, handles, retired, live, issued, createdSince, describeRet, checkRet, arenaGlobals>>

\* Line 102: format->sig = SigInvalid.
\* Faulty variants of DestroyedStruct: the signature is left valid; the arena
\* field is cleared as well.
DestroyedStructSigKept(s) == s

DestroyedStructArenaCleared(s) == [s EXCEPT !.sig = SigInvalid, !.arena = "NULL"]

DestroyedStruct(s) == [s EXCEPT !.sig = SigInvalid]

DestroySig ==
  /\ Running /\ call.pc = "destroy_sig"
  /\ mem' = [mem EXCEPT ![call.format] = DestroyedStruct(@)]
  /\ call' = [call EXCEPT !.pc = "destroy_finish"]
  /\ arenaRet' = NoArenaRet
  /\ UNCHANGED <<formatSerial, ring, allocated, formatReturn, classRet, assertFail, handles, retired, live, issued, createdSince, describeRet, checkRet, arenaGlobals>>

\* Line 104: RingFinish(&format->arenaRing).
DestroyRingFinish ==
  /\ Running /\ call.pc = "destroy_finish"
  /\ ring' = RingFinish(ring, call.format)
  /\ call' = [call EXCEPT !.pc = "destroy_free"]
  /\ arenaRet' = NoArenaRet
  /\ UNCHANGED <<formatSerial, mem, allocated, formatReturn, classRet, assertFail, handles, retired, live, issued, createdSince, describeRet, checkRet, arenaGlobals>>

\* Faulty variant of DestroyFree: the serial is given back to the counter.
DestroyFreeReleasesSerial ==
  /\ Running /\ call.pc = "destroy_free"
  /\ allocated' = allocated \ {call.format}
  /\ formatSerial' = mem[call.format].serial
  /\ call' = [call EXCEPT !.pc = "destroy_ret"]
  /\ retired' = retired \cup {call.format}
  /\ live' = live \ {call.format}
  /\ createdSince' = createdSince \ {call.format}
  /\ arenaRet' = NoArenaRet
  /\ UNCHANGED <<ring, mem, formatReturn, classRet, assertFail, handles, issued, describeRet, checkRet, arenaGlobals>>

\* Line 106: ArenaFree(format->arena, format, sizeof(FormatStruct)); return.
\* The block goes back to the arena with its content as it is.
DestroyFree ==
  /\ Running /\ call.pc = "destroy_free"
  /\ allocated' = allocated \ {call.format}
  /\ call' = [call EXCEPT !.pc = "destroy_ret"]
  /\ retired' = retired \cup {call.format}
  /\ live' = live \ {call.format}
  /\ createdSince' = createdSince \ {call.format}
  /\ arenaRet' = NoArenaRet
  /\ UNCHANGED <<formatSerial, ring, mem, formatReturn, classRet, assertFail, handles, issued, describeRet, checkRet, arenaGlobals>>

-----------------------------------------------------------------------------
(* FormatArena, format.c lines 110-115: no check, no lock *)

\* Faulty variant of FormatArena: the accessor validates the descriptor first.
FormatArenaValidating(format) ==
  IF FormatCheck(format) THEN mem[format].arena ELSE "NULL"

FormatArena(format) == mem[format].arena

\* The call is one read of the field; arenaRet shows its argument and result
\* in the state right after the read, and any later step overwrites it.
ArenaCall ==
  /\ Running
  /\ \E f \in handles :
       arenaRet' = [format |-> f, arena |-> FormatArena(f)]
  /\ UNCHANGED <<formatSerial, ring, mem, allocated, call, formatReturn,
                 classRet, assertFail, handles, retired, live, issued, createdSince, describeRet, checkRet, arenaGlobals>>

-----------------------------------------------------------------------------
(* FormatDescribe *)

\* The text WriteF produces for an argument of each directive.
WriteP(p) == ToString(p)
WriteU(u) == ToString(u)
WriteW(w) == ToString(w)
WriteF_F(f) == f

\* arena->serial: the model has the one arena.
ArenaSerial(arena) == IF arena = TheArena THEN 0 ELSE 1

\* The directives of the WriteF call with their arguments, in order.
DescribeItems(format) ==
  << <<"Format $P", WriteP(format)>>,
     <<"($U)", WriteU(mem[format].serial)>>,
     <<"arena $P", mem[format].arena>>,
     <<"($U)", WriteU(ArenaSerial(mem[format].arena))>>,
     <<"alignment $W", WriteW(mem[format].alignment)>>,
     <<"scan $F", WriteF_F(mem[format].scan)>>,
     <<"skip $F", WriteF_F(mem[format].skip)>>,
     <<"move $F", WriteF_F(mem[format].move)>>,
     <<"isMoved $F", WriteF_F(mem[format].isMoved)>>,
     <<"copy $F", WriteF_F(mem[format].copy)>>,
     <<"pad $F", WriteF_F(mem[format].pad)>>,
     <<"} Format $P", WriteP(format)>>,
     <<"($U)", WriteU(mem[format].serial)>> >>

\* WriteF writes the items in order and stops at the first write the stream
\* refuses: the outcomes are the whole text with ResOK, or a proper prefix of
\* it with the stream's failure.
WriteFOutcomes(items) ==
  {[res |-> ResOK, out |-> items]}
    \cup {[res |-> r, out |-> SubSeq(items, 1, k)] :
            r \in WriteFailures, k \in 0..(Len(items) - 1)}

\* Faulty variant of DescribeResult: the stream's failure is dropped.
DescribeResultAlwaysOK(res) == ResOK

DescribeResult(res) == IF res # ResOK THEN res ELSE ResOK

\* The whole of FormatDescribe: it reads the structure behind the handle it
\* is given, whatever that is, and hands the fields to WriteF.
DescribeCall ==
  /\ Running /\ call.pc = "idle"
  /\ \E f \in handles : \E w \in WriteFOutcomes(DescribeItems(f)) :
       /\ describeRet' = [format |-> f, writeRes |-> w.res, out |-> w.out]
       /\ call' = [IdleCall EXCEPT !.pc = "describe_ret", !.format = f,
                                   !.res = DescribeResult(w.res)]
  /\ arenaRet' = NoArenaRet
  /\ UNCHANGED <<formatSerial, ring, mem, allocated, formatReturn, classRet,
                 assertFail, handles, retired, live, issued, createdSince,
                 checkRet, arenaGlobals>>

-----------------------------------------------------------------------------
(* FormatCheck called by the client *)

\* Faulty variant of CheckCall: the variety test assigns instead of comparing.
CheckCallAssignsVariety ==
  /\ Running /\ call.pc = "idle"
  /\ \E f \in handles :
       /\ checkRet' = [NoCheckRet EXCEPT !.format = f,
                                         !.first = FormatCheckFailure(f)]
       /\ call' = [IdleCall EXCEPT !.pc = "check_ret", !.format = f]
       /\ mem' = [mem EXCEPT ![f].variety = FormatVarietyA]
  /\ arenaRet' = NoArenaRet
  /\ UNCHANGED <<formatSerial, ring, allocated, formatReturn, classRet,
                 assertFail, handles, retired, live, issued, createdSince,
                 describeRet, arenaGlobals>>

\* The checks only read; the result is the first check that fails, or NoFail.
CheckCall ==
  /\ Running /\ call.pc = "idle"
  /\ \E f \in handles :
       /\ checkRet' = [NoCheckRet EXCEPT !.format = f,
                                         !.first = FormatCheckFailure(f)]
       /\ call' = [IdleCall EXCEPT !.pc = "check_ret", !.format = f]
  /\ arenaRet' = NoArenaRet
  /\ UNCHANGED <<formatSerial, ring, mem, allocated, formatReturn, classRet,
                 assertFail, handles, retired, live, issued, createdSince,
                 describeRet, arenaGlobals>>

\* The client calls FormatCheck on the same handle again at once.
CheckAgain ==
  /\ Running /\ call.pc = "check_ret"
  /\ checkRet' = [checkRet EXCEPT !.second = FormatCheckFailure(checkRet.format)]
  /\ call' = [call EXCEPT !.pc = "check_again_ret"]
  /\ arenaRet' = NoArenaRet
  /\ UNCHANGED <<formatSerial, ring, mem, allocated, formatReturn, classRet,
                 assertFail, handles, retired, live, issued, createdSince,
                 describeRet, arenaGlobals>>

-----------------------------------------------------------------------------

Next ==
  \/ CreateCall \/ CreateAllocFail \/ CreateAllocOK \/ CreateArena
  \/ CreateRingInit \/ CreateFields \/ CreateClass \/ CreateSig
  \/ CreateSerial \/ CreateIncrement \/ CreateAvert \/ CreateAppend
  \/ CreateReturn \/ CallerResumes
  \/ DestroyCall \/ DestroyRingRemove \/ DestroySig \/ DestroyRingFinish
  \/ DestroyFree
  \/ ArenaCall
  \/ ClassCall
  \/ DescribeCall
  \/ CheckCall \/ CheckAgain

Spec == Init /\ [][Next]_vars

\* The client that only creates and destroys formats, in the larger arena.
NextWide ==
  \/ CreateCall \/ CreateAllocFail \/ CreateAllocWide \/ CreateArena
  \/ CreateRingInit \/ CreateFields \/ CreateClass \/ CreateSig
  \/ CreateSerial \/ CreateIncrement \/ CreateAvert \/ CreateAppend
  \/ CreateReturn \/ CallerResumes
  \/ DestroyCall \/ DestroyRingRemove \/ DestroySig \/ DestroyRingFinish
  \/ DestroyFree

SpecWide == Init /\ [][NextWide]_vars

-----------------------------------------------------------------------------
(* The arena's threads and roots, as the client of test/conerr/6.c uses them *)

RootRingAssert == "RingIsSingle(&arenaGlobals->rootRing)"

\* The roots whose node is linked into the root ring.
RootsRegistered == {r \in Roots : arenaGlobals.rootRing[r].next # RingNONE}

\* mps_arena_create, after an earlier arena has been destroyed.
ArenaCreate ==
  /\ Running /\ arenaGlobals.state = "destroyed"
  /\ arenaGlobals' = [LiveArenaGlobals EXCEPT !.op = "ArenaCreate"]
  /\ UNCHANGED <<formatSerial, ring, mem, allocated, call, formatReturn,
                 arenaRet, classRet, assertFail, handles, retired, live,
                 issued, createdSince, describeRet, checkRet>>

\* mps_thread_reg
ThreadReg ==
  /\ Running /\ arenaGlobals.state = "live"
  /\ \E t \in Threads \ arenaGlobals.threadRing :
       arenaGlobals' = [arenaGlobals EXCEPT !.threadRing = @ \cup {t},
                                            !.op = "ThreadReg"]
  /\ UNCHANGED <<formatSerial, ring, mem, allocated, call, formatReturn,
                 arenaRet, classRet, assertFail, handles, retired, live,
                 issued, createdSince, describeRet, checkRet>>

\* mps_thread_dereg: the thread's roots stay registered.
ThreadDereg ==
  /\ Running /\ arenaGlobals.state = "live"
  /\ \E t \in arenaGlobals.threadRing :
       arenaGlobals' = [arenaGlobals EXCEPT !.threadRing = @ \ {t},
                                            !.op = "ThreadDereg"]
  /\ UNCHANGED <<formatSerial, ring, mem, allocated, call, formatReturn,
                 arenaRet, classRet, assertFail, handles, retired, live,
                 issued, createdSince, describeRet, checkRet>>

\* mps_root_create_reg: a root of some rank for a registered thread joins the
\* end of the root ring.
RootCreate ==
  /\ Running /\ arenaGlobals.state = "live"
  /\ arenaGlobals.threadRing # {}
  /\ \E r \in Roots \ RootsRegistered : \E k \in Ranks :
       arenaGlobals' =
         [arenaGlobals EXCEPT
            !.rootRing = RingAppend(RingInit(@, r), RootRingHead, r),
            !.rank[r] = k,
            !.op = "RootCreate"]
  /\ UNCHANGED <<formatSerial, ring, mem, allocated, call, formatReturn,
                 arenaRet, classRet, assertFail, handles, retired, live,
                 issued, createdSince, describeRet, checkRet>>

\* mps_root_destroy
RootDestroy ==
  /\ Running /\ arenaGlobals.state = "live"
  /\ \E r \in RootsRegistered :
       arenaGlobals' =
         [arenaGlobals EXCEPT
            !.rootRing = RingFinish(RingRemove(@, r), r),
            !.rank[r] = NoRank,
            !.op = "RootDestroy"]
  /\ UNCHANGED <<formatSerial, ring, mem, allocated, call, formatReturn,
                 arenaRet, classRet, assertFail, handles, retired, live,
                 issued, createdSince, describeRet, checkRet>>

\* Faulty variant of ArenaDestroy: the root ring is not looked at.
ArenaDestroyUnchecked ==
  /\ Running /\ arenaGlobals.state = "live"
  /\ arenaGlobals.threadRing = {}
  /\ arenaGlobals' = [arenaGlobals EXCEPT !.state = "destroyed",
                                          !.op = "ArenaDestroy"]
  /\ UNCHANGED <<formatSerial, ring, mem, allocated, call, formatReturn,
                 arenaRet, classRet, assertFail, handles, retired, live,
                 issued, createdSince, describeRet, checkRet>>

\* mps_arena_destroy, once the client has deregistered its threads as the
\* test does: the arena asserts that its root ring is empty.
ArenaDestroy ==
  /\ Running /\ arenaGlobals.state = "live"
  /\ arenaGlobals.threadRing = {}
  /\ IF RingIsSingle(arenaGlobals.rootRing, RootRingHead)
       THEN /\ arenaGlobals' = [arenaGlobals EXCEPT !.state = "destroyed",
                                                    !.op = "ArenaDestroy"]
            /\ UNCHANGED assertFail
       ELSE /\ arenaGlobals' = [arenaGlobals EXCEPT !.op = "ArenaDestroy"]
            /\ assertFail' = RootRingAssert
  /\ UNCHANGED <<formatSerial, ring, mem, allocated, call, formatReturn,
                 arenaRet, classRet, handles, retired, live, issued,
                 createdSince, describeRet, checkRet>>

NextRoot ==
  \/ ArenaCreate \/ ThreadReg \/ ThreadDereg
  \/ RootCreate \/ RootDestroy
  \/ ArenaDestroy

SpecRoot == Init /\ [][NextRoot]_vars

-----------------------------------------------------------------------------
(* Properties *)

CreateOK == call.pc = "create_ret" /\ call.res = ResOK

SigCheckFails(h) == FormatCheckFailure(h) = "CHECKS(Format, format)"

InFormatRing(h) == h \in RingMembers(ring, FormatRingHead)

\* A mutator operation has completed (or none has begun).
Completed == call.pc \in {"idle"} \cup ReturnPoints

\* C1: when FormatCreate returns ResOK, the descriptor it returned passes
\* FormatCheck, its serial is the value formatSerial had when the call began,
\* and formatSerial is now that serial plus one.
C1_CreatePostcondition ==
  CreateOK =>
    /\ formatReturn = call.format
    /\ FormatCheck(call.format)
    /\ mem[call.format].serial = call.preSerial
    /\ formatSerial = call.preSerial + 1

C1_Witness ==
  /\ CreateOK
  /\ call.preSerial = 1
  /\ formatSerial = 2

\* C2: the serials of the successful FormatCreate calls, in the order of the
\* calls, are strictly increasing (so none is issued twice), whatever
\* FormatDestroy calls come between them.
C2_SerialsStrictlyIncrease ==
  \A i, j \in 1..Len(issued) : i < j => issued[i] < issued[j]

C2_Witness ==
  /\ CreateOK
  /\ Len(issued) >= 3
  /\ call.format \in retired

\* C3 as stated: once FormatDestroy has completed on a handle, FormatCheck on
\* the handle fails at the signature check and the handle's node is not in
\* the format ring, after every later operation.
C3_DestroyedForEver ==
  Completed => \A h \in retired : SigCheckFails(h) /\ ~InFormatRing(h)

\* C3 amended: the same, for as long as ArenaAlloc has not handed the
\* handle's block out again.
C3_DestroyedUntilReallocated ==
  \A h \in retired \ allocated : SigCheckFails(h) /\ ~InFormatRing(h)

C3_Witness ==
  \E h \in createdSince \ allocated :
    /\ live # {}
    /\ call.pc = "idle"
    /\ SigCheckFails(h)

\* C4: a FormatCreate in which ArenaAlloc fails returns ArenaAlloc's result and
\* changes nothing from entry to return: not the ring, formatSerial,
\* *formatReturn, any format structure or the set of blocks in use; when the
\* caller resumes the state is the state before the call.
C4_AllocFailureLeavesNoTrace ==
  [][ /\ (call.pc = "create_alloc" /\ call'.pc = "create_ret") =>
           /\ call'.res \in ResFailures
           /\ UNCHANGED <<ring, formatSerial, formatReturn, mem, allocated,
                          handles, live, assertFail>>
      /\ (call.pc = "idle" /\ call'.pc = "create_alloc") =>
           UNCHANGED <<ring, formatSerial, formatReturn, mem, allocated,
                       handles, live, assertFail>>
      /\ (call.pc = "create_ret" /\ call.res # ResOK /\ call'.pc = "idle") =>
           /\ call' = IdleCall
           /\ UNCHANGED <<ring, formatSerial, formatReturn, mem, allocated,
                          handles, live, assertFail>> ]_vars

C4_Witness ==
  /\ call.pc = "create_ret"
  /\ call.res \in ResFailures
  /\ live # {}
  /\ formatReturn # NULL

\* C5: a FormatCreate called with a null class and FormatVarietyB never gets
\* past line 77: it never returns ResOK, its block is never in the format ring
\* nor among the descriptors handed to the client, and once it has its block
\* it ends in the assertion failure of line 77.
InCreate ==
  call.pc \in {"create_alloc", "create_arena", "create_ring", "create_fields",
               "create_class", "create_sig", "create_serial", "create_incr",
               "create_avert", "create_append", "create_return", "create_ret",
               "create_aver"}

C5_NullClassVarietyBRejected ==
  (InCreate /\ call.args.class = FnNULL /\ call.args.variety = FormatVarietyB) =>
    /\ call.pc \in {"create_alloc", "create_arena", "create_ring",
                    "create_fields", "create_class", "create_aver", "create_ret"}
    /\ call.pc = "create_ret" => call.res \in ResFailures /\ call.format = NULL
    /\ (call.pc = "create_aver" /\ call.format # NULL) =>
         assertFail = "variety == FormatVarietyA"
    /\ call.format # NULL => ~InFormatRing(call.format) /\ call.format \notin live

C5_Witness ==
  /\ call.pc = "create_aver"
  /\ assertFail = "variety == FormatVarietyA"
  /\ call.args.class = FnNULL
  /\ call.args.variety = FormatVarietyB
  /\ live # {}

\* C6: a FormatCreate that returns ResOK has installed FormatDefaultClass when
\* class was null (and then the variety is FormatVarietyA), and the client's
\* class unchanged otherwise; a null class with FormatVarietyA never fails the
\* assertion of line 77; and FormatDefaultClass returns the first word of any
\* non-null object.
C6_ClassInstalled ==
  /\ CreateOK =>
       /\ call.args.class = FnNULL =>
            /\ call.args.variety = FormatVarietyA
            /\ mem[call.format].class = DefaultClassFn
       /\ call.args.class # FnNULL => mem[call.format].class = call.args.class
  /\ (InCreate /\ call.args.class = FnNULL /\ call.args.variety = FormatVarietyA) =>
       assertFail # "variety == FormatVarietyA"
  /\ (classRet.method = DefaultClassFn /\ classRet.object # NullObject) =>
       classRet.result = Head(classRet.object)

C6_Witness ==
  /\ call.pc = "class_ret"
  /\ classRet.method = DefaultClassFn
  /\ Len(classRet.object) = 2
  /\ classRet.object[1] # classRet.object[2]
  /\ mem[classRet.format].variety = FormatVarietyA

\* C7: at every point of every operation, FormatDestroy's steps included,
\* FormatArena on a handle the client holds returns the arena the descriptor
\* was created in.
C7_ArenaAccessorStable ==
  /\ \A h \in handles : FormatArena(h) = TheArena
  /\ arenaRet.format # NULL => arenaRet.arena = TheArena

C7_Witness ==
  /\ arenaRet.format # NULL
  /\ call.pc = "destroy_finish"
  /\ arenaRet.format = call.format

\* C8: for a handle whose descriptor was destroyed (and whose block was not
\* handed out again), FormatArena returns the owning arena and FormatCheck
\* fails.
C8_DestroyedKeepsArena ==
  \A h \in retired \ allocated : FormatArena(h) = TheArena /\ ~FormatCheck(h)

C8_Witness ==
  /\ call.pc = "destroy_ret"
  /\ call.format \in retired \ allocated
  /\ arenaRet.format = call.format
  /\ arenaRet.arena = TheArena

\* C9: between operations the format ring holds exactly the descriptors
\* created and not yet destroyed, each once; their serials are pairwise
\* distinct; and a descriptor just created has a larger serial than every
\* descriptor created before it that is still live.
C9_RingIsLiveSet ==
  /\ Completed =>
       /\ RingMembers(ring, FormatRingHead) = live
       /\ Len(RingWalk(ring, FormatRingHead)) = Cardinality(live)
       /\ \A a, b \in live : a # b => mem[a].serial # mem[b].serial
  /\ CreateOK =>
       \A o \in live \ {call.format} : mem[o].serial < mem[call.format].serial

C9_Witness ==
  /\ call.pc = "idle"
  /\ Cardinality(live) = 2
  /\ retired # {}

\* C10 as stated: every FormatDestroy on a handle that was destroyed before
\* stops at the validation of line 98.
C10_StaleDestroyAlwaysCaught ==
  call.stale => call.pc = "destroy_aver"

\* C10 amended: a FormatDestroy on a handle that was destroyed before, and
\* whose block ArenaAlloc has not handed out again, stops at the validation
\* of line 98 with the signature check failed, before line 100; and a
\* FormatDestroy is past line 98 only on a handle that passes FormatCheck.
C10_StaleDestroyCaughtUnlessReallocated ==
  /\ (call.stale /\ ~call.reused) =>
       /\ call.pc = "destroy_aver"
       /\ assertFail = "CHECKS(Format, format)"
       /\ ~InFormatRing(call.format)
       /\ call.format \notin allocated
  /\ call.pc = "destroy_remove" => FormatCheck(call.format)

C10_Witness ==
  /\ call.stale /\ ~call.reused
  /\ call.pc = "destroy_aver"
  /\ call.format \in createdSince

\* FormatDescribe has returned after WriteF wrote the whole text.
DescribeDone == call.pc = "describe_ret" /\ describeRet.writeRes = ResOK

\* The text holds the directive with this argument.
DescribedAs(directive, text) ==
  \E i \in 1..Len(describeRet.out) : describeRet.out[i] = <<directive, text>>

\* C11: when FormatDescribe has written its text, the text holds the
\* descriptor's arena, its alignment and the address of each of the seven
\* methods: scan, skip, move, isMoved, copy, pad and class.
C11_DescribeWritesSevenMethods ==
  DescribeDone =>
    LET s == mem[describeRet.format] IN
      /\ DescribedAs("arena $P", s.arena)
      /\ DescribedAs("alignment $W", WriteW(s.alignment))
      /\ DescribedAs("scan $F", WriteF_F(s.scan))
      /\ DescribedAs("skip $F", WriteF_F(s.skip))
      /\ DescribedAs("move $F", WriteF_F(s.move))
      /\ DescribedAs("isMoved $F", WriteF_F(s.isMoved))
      /\ DescribedAs("copy $F", WriteF_F(s.copy))
      /\ DescribedAs("pad $F", WriteF_F(s.pad))
      /\ DescribedAs("class $F", WriteF_F(s.class))

\* C16: FormatDescribe on a handle whose signature FormatDestroy has
\* invalidated stops at an assertion and writes none of the structure's
\* fields.
C16_DescribeRequiresSignature ==
  ( /\ call.pc = "describe_ret"
    /\ describeRet.format \in retired
    /\ mem[describeRet.format].sig = SigInvalid )
  => (assertFail # NoFail /\ describeRet.out = <<>>)

\* C18: FormatDescribe changes no format structure, not formatSerial and not
\* the format ring, whether WriteF succeeds or fails, and returns what WriteF
\* returned: the stream's failure, or ResOK.
C18_DescribeMutatesNothing ==
  [][ (call.pc = "idle" /\ call'.pc = "describe_ret") =>
        /\ UNCHANGED <<mem, formatSerial, ring, allocated, formatReturn,
                       handles, retired, live, assertFail>>
        /\ call'.res = describeRet'.writeRes ]_vars

C18_Witness ==
  /\ call.pc = "describe_ret"
  /\ describeRet.writeRes \in WriteFailures
  /\ call.res \in WriteFailures
  /\ describeRet.format \in live
  /\ Len(describeRet.out) > 0

\* C12: a FormatCheck call changes nothing: no format structure, not the
\* ring, not formatSerial, not the blocks in use; and a second call on the
\* same handle made at once returns what the first returned, for live and
\* for destroyed descriptors alike.
C12_CheckHasNoEffect ==
  [][ /\ (call'.pc \in {"check_ret", "check_again_ret"} /\ call'.pc # call.pc) =>
           UNCHANGED <<mem, ring, formatSerial, allocated, formatReturn,
                       handles, retired, live, assertFail>>
      /\ (call'.pc = "check_again_ret") =>
           checkRet'.second = checkRet'.first ]_vars

C12_Witness ==
  /\ call.pc = "check_again_ret"
  /\ checkRet.format \in retired \ allocated
  /\ checkRet.first = "CHECKS(Format, format)"
  /\ checkRet.second = "CHECKS(Format, format)"
  /\ \E f \in live : FormatCheck(f)

\* C13: when the client has called mps_arena_destroy on an arena whose root
\* ring still holds a root, the program has stopped at the assertion
\* RingIsSingle(&arenaGlobals->rootRing) and the arena is not destroyed.
C13_DestroyWithRootAsserts ==
  (arenaGlobals.op = "ArenaDestroy" /\ RootsRegistered # {}) =>
    /\ assertFail = RootRingAssert
    /\ arenaGlobals.state = "live"

C13_Witness ==
  /\ arenaGlobals.op = "ArenaDestroy"
  /\ Cardinality(RootsRegistered) = 1
  /\ \E r \in RootsRegistered : arenaGlobals.rank[r] = "ambig"
  /\ arenaGlobals.threadRing = {}
  /\ assertFail = RootRingAssert

\* Every field of the structure has been assigned (an alignment that has
\* been assigned is told from the block's old content by AlignCheck).
Populated(n) ==
  /\ mem[n].arena # Junk /\ mem[n].variety # Junk
  /\ \A i \in 1..Len(MethodNames) : mem[n][MethodNames[i]] # Junk
  /\ mem[n].class # Junk
  /\ mem[n].sig = FormatSig

\* C14: at every step, a descriptor reachable through the format ring has
\* all its fields assigned, carries FormatSig and passes FormatCheck; while a
\* FormatCreate is under way formatSerial differs from its value at entry
\* only once the new descriptor's fields are assigned; and the ring never
\* holds a descriptor whose signature is SigInvalid.
C14_VisibleOnlyWhenConstructed ==
  /\ \A n \in RingMembers(ring, FormatRingHead) :
       /\ Populated(n)
       /\ mem[n].sig # SigInvalid
       /\ FormatCheck(n)
  /\ (InCreate /\ formatSerial # call.preSerial) => Populated(call.format)

\* C17: no step lowers formatSerial, the increment FormatCreate makes at the
\* largest Serial value included; so the serial of every live descriptor
\* stays below formatSerial.
C17_CounterNeverDecreases ==
  [][ /\ formatSerial' >= formatSerial
      /\ \A f \in live' : mem'[f].serial < formatSerial' ]_vars

\* A FormatCreate is under way whose arguments have an unrecognised variety,
\* an invalid alignment or a null scan, skip, move, isMoved, copy or pad.
MalformedCreate ==
  /\ InCreate
  /\ \/ call.args.variety \notin {FormatVarietyA, FormatVarietyB}
     \/ ~AlignCheck(call.args.alignment)
     \/ \E i \in 1..Len(MethodNames) : ~FUNCHECK(call.args[MethodNames[i]])

InDestroy ==
  call.pc \in {"destroy_remove", "destroy_sig", "destroy_finish",
               "destroy_free", "destroy_ret"}

\* The ring's members other than f, in ring order.
OthersWalk(r, f) ==
  LET Other(n) == n # f IN SelectSeq(RingWalk(r, FormatRingHead), Other)

\* C19: no step of a FormatDestroy changes formatSerial or any field
\* (signature and serial included) of a structure other than the one being
\* destroyed, nor which other descriptors the ring holds or their order; and
\* after each step every other live descriptor passes FormatCheck.
C19_DestroyLeavesOthers ==
  [][ (InDestroy' /\ call'.pc # call.pc) =>
        /\ formatSerial' = formatSerial
        /\ \A o \in Addrs \ {call'.format} : mem'[o] = mem[o]
        /\ OthersWalk(ring', call'.format) = OthersWalk(ring, call'.format)
        /\ \A o \in live' \ {call'.format} : FormatCheck(o)' ]_vars

C19_Witness ==
  /\ call.pc = "destroy_ret"
  /\ ~call.stale
  /\ \E o1, o2 \in live :
       /\ RingWalk(ring, FormatRingHead) = <<o1, o2>>
       /\ FormatCheck(o1) /\ FormatCheck(o2)
       /\ mem[o1].serial < mem[call.format].serial
       /\ mem[call.format].serial < mem[o2].serial

\* C20: walking the format ring from its head meets the descriptors in
\* strictly increasing order of serial, and between operations the
\* descriptors met are exactly the live ones.
C20_RingInSerialOrder ==
  LET w == RingWalk(ring, FormatRingHead) IN
    /\ \A i, j \in 1..Len(w) : i < j => mem[w[i]].serial < mem[w[j]].serial
    /\ Completed => {w[i] : i \in 1..Len(w)} = live

C20_Witness ==
  LET w == RingWalk(ring, FormatRingHead) IN
    /\ Completed
    /\ Len(w) = 2
    /\ w[1] > w[2]
    /\ mem[w[1]].serial < mem[w[2]].serial
    /\ retired # {}

====
